---- MODULE Spec2Model ----
(***************************************************************************)
(* Sync engine of the three ETAtouch dashboard variants.                   *)
(*                                                                         *)
(*   variant "A"  src/index.tsx 1-426        ETAtouchApp / performSync     *)
(*   variant "B"  src/unnamed/part_003       ETAtouchMonitor / fetchCycle  *)
(*   variant "C"  src/index.tsx 428-1014     ETAtouchApp / fetchData       *)
(*                                                                         *)
(* The components are React function components.  A function created in a  *)
(* render reads the state of THAT render: the `isSyncing`, `config`,       *)
(* `mode` and `apiUrl` it sees are the values of the render that created   *)
(* it (its closure).  setInterval keeps the function of the render in      *)
(* which the polling effect last ran; the effect runs again only when one  *)
(* of its dependencies changed.  The model keeps, for every timer, the     *)
(* closure it was created with.                                            *)
(*                                                                         *)
(* State updates made by one handler invocation are applied together       *)
(* (React 18 batching); a pending run of the polling effect is flushed     *)
(* before the next event is handled (effectPending).                       *)
(*                                                                         *)
(* Telemetry values are represented by their provenance: the id of the     *)
(* cycle that produced them (0: the value of the initial state).           *)
(***************************************************************************)
EXTENDS Integers, Sequences, FiniteSets, TLC

VARIABLES
    variant,        \* which of the three components is mounted
    config,         \* [apiUrl, refreshInterval, mockMode]  (C: apiUrl, refreshInterval, mode)
    isSyncing,      \* useState(false)
    logs,           \* useState([]), most recent first
    lastUpdate,     \* lastUpdate / lastSync: 0 is null, else the cycle that set it
    data,           \* snapshot readings, history buffer and tree
    timers,         \* active setInterval timers, each with the closure of its callback
    inflight,       \* cycles suspended at their await (mock delay or fetch)
    effectPending,  \* "none", or why the polling effect has to run
    crashed,        \* a render threw: the component tree is unmounted
    nStarted,       \* number of cycles started so far (cycle ids)
    logSeq,         \* number of addLog calls so far (entry ids)
    last,           \* what the last step did (history variable)
    nEdits,         \* number of configuration edits so far
    nSucc,          \* number of cycles that completed successfully so far
    warm,           \* number of cycles completed before the first state
    clock,          \* milliseconds since mount; NoClock where time is not followed
    telemetry,      \* the numbers and tree built by the last run of the mock generator
    view,           \* useState<View>: the screen shown
    isOpen          \* useState of the tree's root node: expanded or collapsed

vars == <<variant, config, isSyncing, logs, lastUpdate, data, timers, inflight,
          effectPending, crashed, nStarted, logSeq, last, nEdits, nSucc,
          warm, clock, telemetry, view, isOpen>>

\* ---------------------------------------------------------------- bounds
MaxCycles == 3
MaxEdits == 2
MaxIntervals == 8

\* ------------------------------------------------------------- constants
HISTORY_CAP_A == 20
HISTORY_CAP_B == 24
HISTORY_CAP_C_MOCK == 30
HISTORY_CAP_C_LIVE == 20
LOG_CAP_A == 50
LOG_CAP_B == 50
LOG_CAP_C == 100

Variants == {"A", "B", "C"}
Urls == {"https://pc.bravokilo.cloud", "http://other"}
Intervals == {10, 30}
\* the screens: "tree" is the tree explorer ('menu' in A and B, 'tree' in C),
\* "dashboard" stands for every other screen (overview, alerts, logs, config)
Views == {"dashboard", "tree"}
Outcomes == {"ok", "httpError", "rejected", "notJson", "malformed"}

Min(a, b) == IF a < b THEN a ELSE b

\* Array.prototype.slice(-n): the last n elements
SliceLast(s, n) == IF Len(s) <= n THEN s ELSE SubSeq(s, Len(s) - n + 1, Len(s))
\* Array.prototype.slice(0, n): the first n elements
SliceFirst(s, n) == IF Len(s) <= n THEN s ELSE SubSeq(s, 1, n)

INITIAL_CONFIG(v) ==
    CASE v = "A" -> [apiUrl |-> "https://pc.bravokilo.cloud", refreshInterval |-> 10, mockMode |-> TRUE]
      [] v = "B" -> [apiUrl |-> "https://pc.bravokilo.cloud", refreshInterval |-> 30, mockMode |-> TRUE]
      [] v = "C" -> [apiUrl |-> "https://pc.bravokilo.cloud", refreshInterval |-> 10, mockMode |-> TRUE]

NoTelemetry == [made |-> FALSE]

INITIAL_DATA == [boiler |-> 0, outside |-> 0, exhaust |-> 0, other |-> 0,
                 tree |-> 0, history |-> <<>>]

NoClock == 0 - 1
\* the number NaN (no integer the inputs can produce)
NaN == 0 - 1

\* Number(e.target.value) of variants A and C: Number("") is 0
Number(s) == CASE s = "10" -> 10
               [] s = "30" -> 30
               [] s = "" -> 0
\* parseInt(e.target.value) of variant B: parseInt("") is NaN
parseInt(s) == CASE s = "10" -> 10
                 [] s = "30" -> 30
                 [] s = "" -> NaN

\* the delay in milliseconds a timer created by setInterval(fn, ms) runs with:
\* NaN and negative numbers are taken as 0
TimerDelay(ms) == IF ms = NaN \/ ms < 0 THEN 0 ELSE ms
NoCycle == [id |-> 0, mock |-> FALSE, apiUrl |-> "none", by |-> "none",
            at |-> NoClock, edits |-> 0]

\* the closure of the sync function created by the current render
Closure == [isSyncing |-> isSyncing, mockMode |-> config.mockMode, apiUrl |-> config.apiUrl]

Entry(n, type, cyc) == [id |-> n, type |-> type, cyc |-> cyc]
\* a history point; n is its place in the order of successful completions
Point(c) == [cyc |-> c.id, n |-> nSucc + 1]

\* ---------------------------------------------------------------- addLog
\* mutant: slice(-50) for slice(0, 50), which keeps the oldest entries
addLog_A_keepsOldest(prev, e) == SliceLast(<<e>> \o prev, LOG_CAP_A)
addLog_A(prev, e) == SliceFirst(<<e>> \o prev, LOG_CAP_A)
addLog_B(prev, e) == SliceFirst(<<e>> \o prev, LOG_CAP_B)
addLog_C(prev, e) == SliceFirst(<<e>> \o prev, LOG_CAP_C)

\* ------------------------------------------------- setData updater bodies
\* mutant: the tree is written by a separate update that a later cycle makes
setData_A_keepsTree(prev, c) ==
    [prev EXCEPT !.boiler = c.id, !.outside = c.id,
                 !.history = SliceLast(Append(prev.history, Point(c)), HISTORY_CAP_A)]
setData_A(prev, c) ==
    [prev EXCEPT !.boiler = c.id, !.outside = c.id,
                 !.history = SliceLast(Append(prev.history, Point(c)), HISTORY_CAP_A),
                 !.tree = c.id]
\* mutant: [point, ...prev.history], the newest point first
setData_B_prepends(prev, c) ==
    [prev EXCEPT !.boiler = c.id, !.outside = c.id,
                 !.history = SliceLast(<<Point(c)>> \o prev.history, HISTORY_CAP_B),
                 !.tree = c.id]
setData_B(prev, c) ==
    [prev EXCEPT !.boiler = c.id, !.outside = c.id,
                 !.history = SliceLast(Append(prev.history, Point(c)), HISTORY_CAP_B),
                 !.tree = c.id]
setData_C_mock(prev, c) ==
    [boiler |-> c.id, outside |-> c.id, exhaust |-> c.id, other |-> c.id, tree |-> c.id,
     history |-> SliceLast(Append(prev.history, Point(c)), HISTORY_CAP_C_MOCK)]
\* mutant: the response is merged into the previous snapshot and only the
\* readings are taken from it
setData_C_live_keepsTree(prev, c) ==
    [prev EXCEPT !.boiler = c.id, !.outside = c.id, !.exhaust = c.id, !.other = c.id,
                 !.history = SliceLast(Append(prev.history, Point(c)), HISTORY_CAP_C_LIVE)]
setData_C_live(prev, c) ==
    [boiler |-> c.id, outside |-> c.id, exhaust |-> c.id, other |-> c.id, tree |-> c.id,
     history |-> SliceLast(Append(prev.history, Point(c)), HISTORY_CAP_C_LIVE)]


\* --------------------------------------------------------- sync functions
\* Every sync function is split at its await: the part run by the call
\* (up to the await, or to the end when the path has no await) and the part
\* run when the awaited promise settles.  cl is the closure of the function
\* object that is called, by the trigger that called it.

Step(by, started, done, outcome) ==
    [op |-> by, started |-> started, done |-> done, outcome |-> outcome,
     busy |-> inflight # {}]

\* the number of cycles a run starts is bounded: by MaxCycles, or by the time
\* horizon where time is followed
CanStart == clock # NoClock \/ nStarted < warm + MaxCycles

\* `if (isSyncing) return;`
Dropped(by) ==
    /\ UNCHANGED <<isSyncing, logs, logSeq, inflight, nStarted, data, lastUpdate>>
    /\ last' = Step(by, NoCycle, NoCycle, "dropped")

\* at: when it started; edits: the configuration edits made before it started
NewCycle(cl, by) == [id |-> nStarted + 1, mock |-> cl.mockMode, apiUrl |-> cl.apiUrl, by |-> by,
                     at |-> clock, edits |-> nEdits]

\* variant A, src/index.tsx 85-146
\* the else branch (live mode): no await, so setIsSyncing(true), both addLog
\* calls and the setIsSyncing(false) of finally are one batch
performSync_live(c, by) ==
    /\ isSyncing' = FALSE
    /\ logs' = addLog_A(addLog_A(logs, Entry(logSeq + 1, "info", c.id)),
                        Entry(logSeq + 2, "error", c.id))
    /\ logSeq' = logSeq + 2
    /\ inflight' = inflight
    /\ UNCHANGED <<data, lastUpdate>>
    /\ last' = Step(by, c, c, "error")

\* the mock branch up to `await new Promise(r => setTimeout(r, 800))`
performSync_mock(c, by) ==
    /\ isSyncing' = TRUE
    /\ logs' = addLog_A(logs, Entry(logSeq + 1, "info", c.id))
    /\ logSeq' = logSeq + 1
    /\ inflight' = inflight \cup {c}
    /\ UNCHANGED <<data, lastUpdate>>
    /\ last' = Step(by, c, NoCycle, "none")

performSync(cl, by) ==
    IF cl.isSyncing THEN Dropped(by)
    ELSE LET c == NewCycle(cl, by) IN
         /\ CanStart
         /\ nStarted' = c.id
         /\ IF cl.mockMode THEN performSync_mock(c, by) ELSE performSync_live(c, by)

\* the mock branch after the delay, then finally
performSync_resume(c) ==
    /\ data' = setData_A(data, c)
    /\ lastUpdate' = c.id
    /\ logs' = addLog_A(logs, Entry(logSeq + 1, "success", c.id))
    /\ logSeq' = logSeq + 1
    /\ isSyncing' = FALSE
    /\ inflight' = inflight \ {c}
    /\ nStarted' = nStarted
    /\ last' = Step("settle", NoCycle, c, "success")

\* variant B, src/unnamed/part_003 87-139
\* mutant: setLastUpdate moved into finally, so the blocked live branch stamps it
fetchCycle_live_stampsTime(c, by) ==
    /\ isSyncing' = FALSE
    /\ logs' = addLog_B(addLog_B(logs, Entry(logSeq + 1, "info", c.id)),
                        Entry(logSeq + 2, "error", c.id))
    /\ logSeq' = logSeq + 2
    /\ inflight' = inflight
    /\ UNCHANGED data
    /\ lastUpdate' = c.id
    /\ last' = Step(by, c, c, "error")

fetchCycle_live(c, by) ==
    /\ isSyncing' = FALSE
    /\ logs' = addLog_B(addLog_B(logs, Entry(logSeq + 1, "info", c.id)),
                        Entry(logSeq + 2, "error", c.id))
    /\ logSeq' = logSeq + 2
    /\ inflight' = inflight
    /\ UNCHANGED <<data, lastUpdate>>
    /\ last' = Step(by, c, c, "error")

\* mutant: a restarted poll begins from an empty history
fetchCycle_mock_resetsHistory(c, by) ==
    /\ isSyncing' = TRUE
    /\ logs' = addLog_B(logs, Entry(logSeq + 1, "info", c.id))
    /\ logSeq' = logSeq + 1
    /\ inflight' = inflight \cup {c}
    /\ data' = (IF by = "edit" THEN [data EXCEPT !.history = <<>>] ELSE data)
    /\ UNCHANGED lastUpdate
    /\ last' = Step(by, c, NoCycle, "none")

\* the mock branch up to `await new Promise(r => setTimeout(r, 1200))`
fetchCycle_mock(c, by) ==
    /\ isSyncing' = TRUE
    /\ logs' = addLog_B(logs, Entry(logSeq + 1, "info", c.id))
    /\ logSeq' = logSeq + 1
    /\ inflight' = inflight \cup {c}
    /\ UNCHANGED <<data, lastUpdate>>
    /\ last' = Step(by, c, NoCycle, "none")

fetchCycle(cl, by) ==
    IF cl.isSyncing THEN Dropped(by)
    ELSE LET c == NewCycle(cl, by) IN
         /\ CanStart
         /\ nStarted' = c.id
         /\ IF cl.mockMode THEN fetchCycle_mock(c, by) ELSE fetchCycle_live(c, by)

\* the mock branch after the delay, then finally
fetchCycle_resume(c) ==
    /\ data' = setData_B(data, c)
    /\ lastUpdate' = c.id
    /\ logs' = addLog_B(logs, Entry(logSeq + 1, "success", c.id))
    /\ logSeq' = logSeq + 1
    /\ isSyncing' = FALSE
    /\ inflight' = inflight \ {c}
    /\ nStarted' = nStarted
    /\ last' = Step("settle", NoCycle, c, "success")

\* variant C, src/index.tsx 609-711
fetchData(cl, by) ==
    IF cl.isSyncing THEN Dropped(by)
    ELSE LET c == NewCycle(cl, by) IN
         /\ CanStart
         /\ nStarted' = c.id
         /\ UNCHANGED <<data, lastUpdate>>
         /\ isSyncing' = TRUE
         /\ inflight' = inflight \cup {c}
         /\ last' = Step(by, c, NoCycle, "none")
         /\ IF ~cl.mockMode
            THEN \* mode === 'live': suspended at `await fetch(...)`
                 /\ logs' = addLog_C(logs, Entry(logSeq + 1, "info", c.id))
                 /\ logSeq' = logSeq + 1
            ELSE \* suspended at `await new Promise(... MOCK_DELAY)`
                 /\ UNCHANGED <<logs, logSeq>>

\* the mock branch after the delay, then setLastSync and finally
fetchData_mock(c) ==
    /\ data' = setData_C_mock(data, c)
    /\ logs' = addLog_C(logs, Entry(logSeq + 1, "success", c.id))
    /\ logSeq' = logSeq + 1
    /\ lastUpdate' = c.id
    /\ isSyncing' = FALSE
    /\ last' = Step("settle", NoCycle, c, "success")

\* the live branch after a response with ok status and a body of the expected
\* shape, then setLastSync and finally
fetchData_live(c) ==
    /\ data' = setData_C_live(data, c)
    /\ logs' = addLog_C(logs, Entry(logSeq + 1, "success", c.id))
    /\ logSeq' = logSeq + 1
    /\ lastUpdate' = c.id
    /\ isSyncing' = FALSE
    /\ last' = Step("settle", NoCycle, c, "success")

\* mutant: setLastSync(new Date()) moved into finally, so a failure stamps it
fetchData_catch_stampsTime(c) ==
    /\ UNCHANGED data
    /\ lastUpdate' = c.id
    /\ logs' = addLog_C(logs, Entry(logSeq + 1, "error", c.id))
    /\ logSeq' = logSeq + 1
    /\ isSyncing' = FALSE
    /\ last' = Step("settle", NoCycle, c, "error")

\* catch and finally: fetch rejected, `!response.ok`, or response.json() rejected
fetchData_catch(c) ==
    /\ UNCHANGED <<data, lastUpdate>>
    /\ logs' = addLog_C(logs, Entry(logSeq + 1, "error", c.id))
    /\ logSeq' = logSeq + 1
    /\ isSyncing' = FALSE
    /\ last' = Step("settle", NoCycle, c, "error")

\* a JSON body without a metrics object: the updater passed to setData throws
\* when React runs it, in the render and so outside the try block of fetchData;
\* the render fails, the updates of this batch are never committed and the
\* component tree is unmounted
fetchData_fault(c) ==
    /\ UNCHANGED <<data, lastUpdate, logs, logSeq, isSyncing>>
    /\ last' = Step("settle", NoCycle, c, "crash")

\* o is how the fetch of a live cycle settles (a mock cycle has no fetch)
fetchData_resume(c, o) ==
    /\ inflight' = inflight \ {c}
    /\ nStarted' = nStarted
    /\ IF c.mock THEN fetchData_mock(c)
       ELSE CASE o = "ok" -> fetchData_live(c)
              [] o \in {"httpError", "rejected", "notJson"} -> fetchData_catch(c)
              [] o = "malformed" -> fetchData_fault(c)

\* the call of the variant's sync function
Call(cl, by) ==
    CASE variant = "A" -> performSync(cl, by)
      [] variant = "B" -> fetchCycle(cl, by)
      [] variant = "C" -> fetchData(cl, by)

\* ------------------------------------------------------------- tree view
\* useState(depth === 0) / useState(depth < 1) / useState(depth < 2): the root
\* node (depth 0) starts expanded
DefaultOpen == TRUE

\* the step changed state of the app component, which therefore renders again
Rendered == <<config, isSyncing, logs, lastUpdate, data, view>>' #
                <<config, isSyncing, logs, lastUpdate, data, view>>

\* The state of the root node after the step.  A and B define the node
\* component inside the app component: every render of the app creates a new
\* function, React takes it for another component type and mounts the nodes
\* afresh.  C defines TreeNode at module level and keys the nodes by index and
\* name: a node keeps its state for as long as it stays mounted, also when the
\* tree it shows is replaced.  Leaving the tree screen, or the unmount after a
\* failed render, discards the state.
isOpenAfter ==
    IF crashed' \/ view' # "tree" \/ data'.tree = 0 THEN DefaultOpen
    ELSE IF variant \in {"A", "B"} /\ Rendered THEN DefaultOpen
    ELSE isOpen

\* --------------------------------------------------------- polling effect
\* Did a dependency of the polling effect change in this step?
\*   A: [config.refreshInterval, config.apiUrl, performSync], and performSync is
\*      useCallback(..., [config, isSyncing, addLog])          (index.tsx 146, 152)
\*   B: [config.refreshInterval, config.apiUrl]                (part_003 145)
\*   C: [refreshInterval, mode, apiUrl]                        (index.tsx 718)
DepsChanged ==
    CASE variant = "A" -> config' # config \/ isSyncing' # isSyncing
      [] variant = "B" -> \/ config'.refreshInterval # config.refreshInterval
                          \/ config'.apiUrl # config.apiUrl
      [] variant = "C" -> \/ config'.refreshInterval # config.refreshInterval
                          \/ config'.mockMode # config.mockMode
                          \/ config'.apiUrl # config.apiUrl

EffectAfter == IF ~DepsChanged THEN "none"
               ELSE IF config' # config THEN "edit" ELSE "sync"

\* mutant: an effect without cleanup
clearInterval_keepsTimer(ts) == ts
\* the cleanup returned by the previous run of the effect: clearInterval of the
\* timer that run created
clearInterval(ts) == IF ts = <<>> THEN ts ELSE SubSeq(ts, 1, Len(ts) - 1)

\* mutant: setInterval(fn, Math.max(1, config.refreshInterval) * 1000)
setInterval_clamped(ts) ==
    Append(ts, [closure |-> Closure,
                period |-> IF config.refreshInterval # NaN /\ config.refreshInterval < 1
                           THEN 1 ELSE config.refreshInterval,
                set |-> clock])
\* setInterval(fn, config.refreshInterval * 1000) with the fn of this render
setInterval(ts) == Append(ts, [closure |-> Closure, period |-> config.refreshInterval,
                               set |-> clock])

\* useEffect(() => { fn(); const t = setInterval(fn, ...); return () => clearInterval(t) }, deps)
RunEffect ==
    /\ ~crashed
    /\ effectPending # "none"
    /\ Call(Closure, effectPending)
    /\ timers' = setInterval(clearInterval(timers))
    /\ UNCHANGED <<variant, config, crashed, nEdits, nSucc, warm, clock, telemetry>>
    /\ effectPending' = EffectAfter
    /\ view' = view
    /\ isOpen' = isOpenAfter

\* --------------------------------------------------------------- triggers
\* the interval timer fires: the function object it was created with is called
Tick ==
    /\ ~crashed
    /\ effectPending = "none"
    /\ \E i \in 1..Len(timers) : Call(timers[i].closure, "timer")
    /\ UNCHANGED <<variant, config, timers, crashed, nEdits, nSucc, warm, clock, telemetry>>
    /\ effectPending' = EffectAfter
    /\ view' = view
    /\ isOpen' = isOpenAfter

\* "Manual Sync" / "Sync Jetzt": onClick={performSync} / onClick={fetchCycle},
\* the function of the current render (variants A and B; C has no such button)
Click ==
    /\ ~crashed
    /\ effectPending = "none"
    /\ variant \in {"A", "B"}
    /\ Call(Closure, "manual")
    /\ UNCHANGED <<variant, config, timers, crashed, nEdits, nSucc, warm, clock, telemetry>>
    /\ effectPending' = EffectAfter
    /\ view' = view
    /\ isOpen' = isOpenAfter

\* ------------------------------------------------------ configuration edits
\* the input whose onChange handler ran
EditedField(newConfig) ==
    CASE newConfig.apiUrl # config.apiUrl -> "editUrl"
      [] newConfig.refreshInterval # config.refreshInterval -> "editInterval"
      [] OTHER -> "editMode"

Edit(newConfig) ==
    /\ ~crashed
    /\ effectPending = "none"
    /\ view # "tree"              \* the inputs are on the configuration screen
    /\ newConfig # config
    /\ nEdits < MaxEdits
    /\ isSyncing \/ CanStart      \* the effect's call can be modelled within the bounds
    /\ nEdits' = nEdits + 1
    /\ config' = newConfig
    /\ last' = Step(EditedField(newConfig), NoCycle, NoCycle, "none")
    /\ UNCHANGED <<isSyncing, logs, logSeq, inflight, nStarted, data, lastUpdate>>
    /\ effectPending' = EffectAfter
    /\ UNCHANGED <<variant, timers, crashed, nSucc, warm, clock, telemetry>>
    /\ view' = view
    /\ isOpen' = isOpenAfter

EditUrl == \E u \in Urls : Edit([config EXCEPT !.apiUrl = u])
EditInterval == \E i \in Intervals : Edit([config EXCEPT !.refreshInterval = i])
ToggleMock == Edit([config EXCEPT !.mockMode = ~config.mockMode])

\* mutant: the button resets the history together with the log
ClearLogs_resetsHistory ==
    /\ ~crashed
    /\ effectPending = "none"
    /\ view # "tree"
    /\ logs # <<>>
    /\ logs' = <<>>
    /\ data' = [data EXCEPT !.history = <<>>]
    /\ last' = Step("clear", NoCycle, NoCycle, "none")
    /\ UNCHANGED <<variant, config, isSyncing, lastUpdate, timers, inflight,
                   effectPending, crashed, nStarted, logSeq, nEdits, nSucc, warm, clock, telemetry>>
    /\ view' = view
    /\ isOpen' = isOpenAfter
\* the CLEAR / RESET button of the log panel: setLogs([])
ClearLogs ==
    /\ ~crashed
    /\ effectPending = "none"
    /\ view # "tree"              \* the log panel is not on the tree screen
    /\ logs # <<>>
    /\ logs' = <<>>
    /\ last' = Step("clear", NoCycle, NoCycle, "none")
    /\ UNCHANGED <<variant, config, isSyncing, lastUpdate, data, timers, inflight,
                   effectPending, crashed, nStarted, logSeq, nEdits, nSucc, warm, clock, telemetry>>
    /\ view' = view
    /\ isOpen' = isOpenAfter

\* ------------------------------------------------------------- completion
\* the awaited promise of cycle c settles and the rest of the function runs
Settle ==
    /\ ~crashed
    /\ effectPending = "none"
    /\ \E c \in inflight :
         \E o \in (IF c.mock THEN {"ok"} ELSE Outcomes) :
            CASE variant = "A" -> performSync_resume(c)
              [] variant = "B" -> fetchCycle_resume(c)
              [] variant = "C" -> fetchData_resume(c, o)
    /\ UNCHANGED <<variant, config, nEdits, warm, clock, telemetry>>
    /\ nSucc' = IF last'.outcome = "success" THEN nSucc + 1 ELSE nSucc
    /\ crashed' = (last'.outcome = "crash")
    /\ timers' = IF crashed' THEN <<>> ELSE timers
    /\ effectPending' = IF crashed' THEN "none" ELSE EffectAfter
    /\ view' = view
    /\ isOpen' = isOpenAfter

\* after the tree was unmounted the state setters of a settling cycle do nothing
SettleUnmounted ==
    /\ crashed
    /\ \E c \in inflight :
         /\ inflight' = inflight \ {c}
         /\ last' = Step("settle", NoCycle, c, "unmounted")
    /\ UNCHANGED <<variant, config, isSyncing, logs, lastUpdate, data, timers,
                   effectPending, crashed, nStarted, logSeq, nEdits, nSucc, warm, clock, telemetry,
                   view, isOpen>>

\* ------------------------------------------------------------ specification
Init ==
    /\ variant \in Variants
    /\ config = INITIAL_CONFIG(variant)
    /\ isSyncing = FALSE
    /\ logs = <<>>
    /\ lastUpdate = 0
    /\ data = INITIAL_DATA
    /\ timers = <<>>
    /\ inflight = {}
    /\ effectPending = "mount"
    /\ crashed = FALSE
    /\ nStarted = 0
    /\ logSeq = 0
    /\ last = [op |-> "init", started |-> NoCycle, done |-> NoCycle,
               outcome |-> "none", busy |-> FALSE]
    /\ nEdits = 0
    /\ nSucc = 0
    /\ warm = 0
    /\ clock = NoClock
    /\ telemetry = NoTelemetry
    /\ view = "dashboard"
    /\ isOpen = DefaultOpen

Next ==
    \/ RunEffect
    \/ Tick
    \/ Click
    \/ EditUrl
    \/ EditInterval
    \/ ToggleMock
    \/ ClearLogs
    \/ Settle
    \/ SettleUnmounted

Spec == Init /\ [][Next]_vars

\* ------------------------------------------------- long-running component
\* The state reached from Init by k mock cycles run one after the other with the
\* initial configuration (mount, then k - 1 further starts, each after the
\* previous cycle settled), the log never cleared.  SpecWarm starts from such
\* states with the log one cycle from its capacity (the history buffer is then
\* full); Next is the same.
WarmLogs(v, k) ==
    IF v = "C"
    THEN [i \in 1..Min(k, LOG_CAP_C) |-> Entry(k - i + 1, "success", k - i + 1)]
    ELSE [i \in 1..Min(2 * k, IF v = "A" THEN LOG_CAP_A ELSE LOG_CAP_B) |->
            LET n == 2 * k - i + 1 IN
            Entry(n, IF n % 2 = 1 THEN "info" ELSE "success", (n + 1) \div 2)]

WarmHistory(v, k) ==
    LET cap == CASE v = "A" -> HISTORY_CAP_A
                 [] v = "B" -> HISTORY_CAP_B
                 [] v = "C" -> HISTORY_CAP_C_MOCK
        len == Min(k, cap)
    IN [i \in 1..len |-> [cyc |-> k - len + i, n |-> k - len + i]]

WarmCycle(v, k) ==
    [id |-> k, mock |-> TRUE, apiUrl |-> INITIAL_CONFIG(v).apiUrl,
     by |-> IF k = 1 THEN "mount" ELSE IF v = "A" THEN "sync" ELSE "timer",
     at |-> NoClock, edits |-> 0]

WarmCounts(v) ==
    CASE v = "A" -> {LOG_CAP_A \div 2 - 1}
      [] v = "B" -> {LOG_CAP_B \div 2 - 1}
      [] v = "C" -> {LOG_CAP_C - 1}

WarmState(v, k) ==
    /\ variant = v
    /\ config = INITIAL_CONFIG(v)
    /\ isSyncing = FALSE
    /\ logs = WarmLogs(v, k)
    /\ lastUpdate = k
    /\ data = [boiler |-> k, outside |-> k,
               exhaust |-> IF v = "C" THEN k ELSE 0,
               other |-> IF v = "C" THEN k ELSE 0,
               tree |-> k, history |-> WarmHistory(v, k)]
    /\ timers = <<[closure |-> [isSyncing |-> (v = "A"),
                                mockMode |-> TRUE,
                                apiUrl |-> INITIAL_CONFIG(v).apiUrl],
                   period |-> INITIAL_CONFIG(v).refreshInterval, set |-> NoClock]>>
    /\ inflight = {}
    /\ effectPending = IF v = "A" THEN "sync" ELSE "none"
    /\ crashed = FALSE
    /\ nStarted = k
    /\ nSucc = k
    /\ logSeq = IF v = "C" THEN k ELSE 2 * k
    /\ last = [op |-> "settle", started |-> NoCycle, done |-> WarmCycle(v, k),
               outcome |-> "success", busy |-> TRUE]

InitWarm ==
    \E v \in Variants : \E k \in WarmCounts(v) :
        /\ WarmState(v, k)
        /\ nEdits = 0
        /\ warm = k
        /\ clock = NoClock
        /\ telemetry = NoTelemetry
    /\ view = "dashboard"
    /\ isOpen = DefaultOpen

SpecWarm == InitWarm /\ [][Next]_vars

\* Scheduling: React runs a pending effect, and the setTimeout of a mock cycle
\* fires (nothing cancels it).  A fetch may stay pending for ever: no fairness
\* for the completion of a live cycle.
SettleMock == Settle /\ last'.done.mock
SpecFair == Init /\ [][Next]_vars /\ WF_vars(RunEffect) /\ WF_vars(SettleMock)

\* ------------------------------------------------------------ the screens
\* a navigation button: onClick={() => setView(id)}
SetView ==
    /\ ~crashed
    /\ effectPending = "none"
    /\ \E v \in Views \ {view} : view' = v
    /\ last' = Step("view", NoCycle, NoCycle, "none")
    /\ UNCHANGED <<variant, config, isSyncing, logs, lastUpdate, data, timers, inflight,
                   effectPending, crashed, nStarted, logSeq, nEdits, nSucc, warm, clock, telemetry>>
    /\ isOpen' = isOpenAfter

\* a click on the root node of the tree: hasChildren && setOpen(!open); only
\* the node renders again
ToggleNode ==
    /\ ~crashed
    /\ effectPending = "none"
    /\ view = "tree"
    /\ data.tree # 0
    /\ isOpen' = ~isOpen
    /\ last' = Step("toggle", NoCycle, NoCycle, "none")
    /\ UNCHANGED <<variant, config, isSyncing, logs, lastUpdate, data, timers, inflight,
                   effectPending, crashed, nStarted, logSeq, nEdits, nSucc, warm, clock, telemetry,
                   view>>

\* ------------------------------------------------- unusable interval input
\* The interval input is emptied, or text that is not a number is typed into
\* it: a type="number" input hands both to onChange as the empty string.
EmptyInterval ==
    Edit([config EXCEPT !.refreshInterval =
             IF variant = "B" THEN parseInt("") ELSE Number("")])

NextInput ==
    \/ Next
    \/ EmptyInterval

SpecInput == Init /\ [][NextInput]_vars

\* the component with its screens in use
NextView ==
    \/ Next
    \/ SetView
    \/ ToggleNode

SpecView == Init /\ [][NextView]_vars

\* ---------------------------------------------------------- mock generator
\* The numbers of the mock branch, in thousandths (68.4 is 68400).  A call of
\* Math.random() is a draw r from Draws, standing for r / 1000 in [0, 1).
\* Strings of the source are kept, in ASCII ("Ruecklauf" for "Rücklauf",
\* "degC" for "°C"); a value formatted by toFixed is kept as its number.
Draws == {0, 500, 999}

\* x.toFixed(d), and Number(...) / parseFloat(...) of it: x rounded to d decimals
toFixed(x, d) == IF d = 0 THEN ((x + 500) \div 1000) * 1000
                 ELSE ((x + 50) \div 100) * 100

CONTROLLER_NAME(v) == CASE v = "A" -> "ETA PE-K 15"
                        [] v = "B" -> "ETAtouch System"
                        [] v = "C" -> "ETA PE-K 15kW"

Leaf(name, value, unit) == [name |-> name, value |-> value, unit |-> unit]
Group(name, children) == [name |-> name, children |-> children]

\* variant A, src/index.tsx 97-132
menuTree_A(nextBoiler) ==
    Group("ETA PE-K 15", <<
        Group("Kessel", <<
            Leaf("Kessel-Temperatur", toFixed(nextBoiler, 1), "degC"),
            Leaf("Abgas-Temperatur", "138.5", "degC"),
            Leaf("Kessel-Soll", "75.0", "degC"),
            Leaf("Zuendung Status", "Ein", "") >>),
        Group("Lagerung", <<
            Leaf("Vorrat Pellets", "2450", "kg"),
            Leaf("Fuellstand", "65", "%") >>),
        Group("Heizkreis 1", <<
            Leaf("Vorlauf-Ist", "45.2", "degC"),
            Leaf("Vorlauf-Soll", "48.0", "degC") >>) >>)

\* mutant: the random term is scaled by 20 instead of 10
mock_A_wideBoiler(r) ==
    LET nextBoiler == 65000 + r[1] * 20
        nextOutside == 5000 + r[2] * 5
    IN [boilerTemp |-> toFixed(nextBoiler, 1),
        outsideTemp |-> toFixed(nextOutside, 1),
        point |-> [boiler |-> nextBoiler, outside |-> nextOutside],
        tree |-> menuTree_A(nextBoiler)]

mock_A(r) ==
    LET nextBoiler == 65000 + r[1] * 10
        nextOutside == 5000 + r[2] * 5
    IN [boilerTemp |-> toFixed(nextBoiler, 1),
        outsideTemp |-> toFixed(nextOutside, 1),
        point |-> [boiler |-> nextBoiler, outside |-> nextOutside],
        tree |-> menuTree_A(nextBoiler)]

\* mutant: the set-point leaf is built only when the boiler is below 74 degrees
menuTree_B_dropsLeaf(nextBoiler) ==
    Group("ETAtouch System", <<
        Group("Kessel", <<
            Leaf("Kessel-Temperatur", toFixed(nextBoiler, 1), "degC"),
            Leaf("Abgas-Temperatur", "145.0", "degC") >> \o
            (IF nextBoiler < 74000 THEN << Leaf("Kessel-Soll", "75.0", "degC") >> ELSE << >>)),
        Group("Heizkreis 1", <<
            Leaf("Vorlauf-Ist", "42.1", "degC"),
            Leaf("Vorlauf-Soll", "45.0", "degC") >>) >>)

\* variant B, src/unnamed/part_003 98-125
menuTree_B(nextBoiler) ==
    Group("ETAtouch System", <<
        Group("Kessel", <<
            Leaf("Kessel-Temperatur", toFixed(nextBoiler, 1), "degC"),
            Leaf("Abgas-Temperatur", "145.0", "degC"),
            Leaf("Kessel-Soll", "75.0", "degC") >>),
        Group("Heizkreis 1", <<
            Leaf("Vorlauf-Ist", "42.1", "degC"),
            Leaf("Vorlauf-Soll", "45.0", "degC") >>) >>)

mock_B(r) ==
    LET nextBoiler == 70000 + r[1] * 5
        nextOutside == 5000 + r[2] * 3
    IN [boilerTemp |-> toFixed(nextBoiler, 1),
        outsideTemp |-> toFixed(nextOutside, 1),
        point |-> [boiler |-> nextBoiler, outside |-> nextOutside],
        tree |-> menuTree_B(nextBoiler)]

\* variant C, src/index.tsx 643-700
mockMetrics(r) ==
    [boiler |-> 60000 + r[1] * 15,
     outside |-> 5000 + r[2] * 5,
     exhaust |-> 140000 + r[3] * 20,
     bufferTop |-> 65000 + r[4] * 5,
     bufferBottom |-> 40000 + r[5] * 5,
     pellets |-> 2450]

\* the tree of variant C is an array with the controller as its one element
mockTree(m) ==
    << Group("ETA PE-K 15kW", <<
        Group("Kessel", <<
            Leaf("Kessel", toFixed(m.boiler, 1), "degC"),
            Leaf("Kessel Soll", "70.0", "degC"),
            Leaf("Ruecklauf", "58.2", "degC"),
            Leaf("Abgas", toFixed(m.exhaust, 0), "degC"),
            Leaf("Geblaese", "1850", "U/min") >>),
        Group("Puffer", <<
            Leaf("Puffer Oben", toFixed(m.bufferTop, 1), "degC"),
            Leaf("Puffer Unten", toFixed(m.bufferBottom, 1), "degC"),
            Leaf("Ladezustand", "68", "%") >>),
        Group("Heizkreis", <<
            Leaf("Vorlauf", "42.5", "degC"),
            Leaf("Aussentemperatur", toFixed(m.outside, 1), "degC"),
            Leaf("Pumpe", "Ein", "") >>),
        Group("Lager", <<
            Leaf("Vorrat", m.pellets, "kg"),
            Leaf("Verbrauch Gesamt", "12500", "kg") >>) >>) >>

mock_C(r) ==
    LET m == mockMetrics(r)
    IN [metrics |-> m,
        point |-> [boiler |-> m.boiler, outside |-> m.outside],
        tree |-> mockTree(m)]

\* one run of the mock branch of the mounted variant: what it hands to setData
\* (again: a tree of an earlier run was stored before)
Generate ==
    /\ \E r \in [1..5 -> Draws] :
          telemetry' = [made |-> TRUE, again |-> telemetry.made,
                        out |-> CASE variant = "A" -> mock_A(r)
                                  [] variant = "B" -> mock_B(r)
                                  [] variant = "C" -> mock_C(r)]
    /\ UNCHANGED <<variant, config, isSyncing, logs, lastUpdate, data, timers,
                   inflight, effectPending, crashed, nStarted, logSeq, last,
                   nEdits, nSucc, warm, clock, view, isOpen>>

SpecGen == Init /\ [][Generate]_vars

\* ------------------------------------------------------------ followed time
\* The component started in mock mode with a refresh interval of one second and
\* left alone, with the clock followed in milliseconds: a mock cycle settles
\* when its setTimeout delay has passed, the interval timer fires every
\* period after the setInterval call that created it.  Time moves from one
\* instant at which something is due to the next; the end of every interval
\* since the start is such an instant.
MockDelay == CASE variant = "A" -> 800
               [] variant = "B" -> 1200
               [] variant = "C" -> 800

Period(t) == t.period * 1000
Due(c) == c.at + MockDelay
NextFire(t) == t.set + ((clock - t.set) \div Period(t) + 1) * Period(t)
TickDue == \E i \in 1..Len(timers) :
              clock > timers[i].set /\ (clock - timers[i].set) % Period(timers[i]) = 0
SettleDue == \E c \in inflight : Due(c) <= clock
SetMin(S) == CHOOSE x \in S : \A y \in S : x <= y

InitScenario ==
    /\ variant \in Variants
    /\ config = [INITIAL_CONFIG(variant) EXCEPT !.refreshInterval = 1]
    /\ isSyncing = FALSE
    /\ logs = <<>>
    /\ lastUpdate = 0
    /\ data = INITIAL_DATA
    /\ timers = <<>>
    /\ inflight = {}
    /\ effectPending = "mount"
    /\ crashed = FALSE
    /\ nStarted = 0
    /\ logSeq = 0
    /\ last = [op |-> "init", started |-> NoCycle, done |-> NoCycle,
               outcome |-> "none", busy |-> FALSE]
    /\ nEdits = 0
    /\ nSucc = 0
    /\ warm = 0
    /\ clock = 0
    /\ telemetry = NoTelemetry
    /\ view = "dashboard"
    /\ isOpen = DefaultOpen

\* the delay of a cycle has passed: its promise resolves
TimedSettle == SettleDue /\ Settle /\ Due(last'.done) <= clock

\* the timer is due and has not fired at this instant
TimedTick == TickDue /\ ~SettleDue /\ last.op # "timer" /\ Tick

\* nothing more is due now: time passes until something is
Advance ==
    /\ effectPending = "none"
    /\ ~SettleDue
    /\ TickDue => last.op = "timer"
    /\ clock < MaxIntervals * config.refreshInterval * 1000
    /\ clock' = SetMin({Due(c) : c \in inflight}
                       \cup {NextFire(timers[i]) : i \in 1..Len(timers)}
                       \cup {(clock \div (config.refreshInterval * 1000) + 1)
                                * config.refreshInterval * 1000})
    /\ last' = Step("advance", NoCycle, NoCycle, "none")
    /\ UNCHANGED <<variant, config, isSyncing, logs, lastUpdate, data, timers,
                   inflight, effectPending, crashed, nStarted, logSeq, nEdits,
                   nSucc, warm, telemetry, view, isOpen>>

NextScenario ==
    \/ RunEffect
    \/ TimedSettle
    \/ TimedTick
    \/ Advance

SpecScenario == InitScenario /\ [][NextScenario]_vars

\* ================================================================== claims
\* the log entries added by the step, and the history points it added
NewEntries == {i \in 1..Len(logs') : logs'[i].id > logSeq}
NewOfType(t) == {i \in NewEntries : logs'[i].type = t}

\* C1: at most one sync cycle is in flight at any time, in every variant and
\* for every interleaving of mount, timer ticks, manual syncs and edits.
C1_AtMostOneInFlight == Cardinality(inflight) <= 1

\* C2: polling never stops: whenever the component is idle (mounted, no effect
\* pending, no cycle in flight) its timer fires at the configured period and the
\* callback it holds starts a cycle, also after edits made during a cycle.
C2_TimerKeepsPolling ==
    (~crashed /\ effectPending = "none" /\ inflight = {}) =>
        \E i \in 1..Len(timers) :
            /\ timers[i].period = config.refreshInterval
            /\ ~timers[i].closure.isSyncing

\* C3: every cycle runs with the configuration of the moment it starts: its
\* mode and base URL are the edited ones, and the timer runs at the edited period.
C3_CyclesUseCurrentConfig ==
    /\ last.started # NoCycle =>
          /\ last.started.mock = config.mockMode
          /\ last.started.apiUrl = config.apiUrl
    /\ (~crashed /\ effectPending = "none") =>
          \A i \in 1..Len(timers) : timers[i].period = config.refreshInterval

\* C4: a cycle is started at mount, by the interval timer, by a manual sync or
\* as the direct result of a configuration edit, and by nothing else: the
\* completion of a cycle does not start the next one.
C4_StartedOnlyByTriggers ==
    last.started # NoCycle => last.started.by \in {"mount", "timer", "manual", "edit"}

\* C5: a failed live cycle leaves snapshot, history, tree and last-update time
\* as they were, at its start and at its failure, and appends exactly one error
\* entry (and no success entry).
C5_FailureLeavesData ==
    [][/\ (last'.started # NoCycle /\ ~last'.started.mock) =>
             data' = data /\ lastUpdate' = lastUpdate
       /\ (last'.outcome = "error" /\ last'.done # NoCycle) =>
          /\ data' = data
          /\ lastUpdate' = lastUpdate
          /\ Cardinality(NewOfType("error")) = 1
          /\ NewOfType("success") = {}
          /\ \A i \in NewEntries : logs'[i].cyc = last'.done.id]_vars

\* a live cycle has failed after an earlier cycle had stored data
C5_Witness ==
    /\ last.outcome = "error"
    /\ lastUpdate > 0
    /\ data.history # <<>>
    /\ variant = "C"

\* the capacities the claims name for each variant
HistoryCapacity == CASE variant = "A" -> HISTORY_CAP_A
                     [] variant = "B" -> HISTORY_CAP_B
                     [] variant = "C" -> HISTORY_CAP_C_MOCK
LogCapacity == CASE variant = "A" -> LOG_CAP_A
                 [] variant = "B" -> LOG_CAP_B
                 [] variant = "C" -> LOG_CAP_C

\* C6: after N successful cycles the history holds exactly min(N, capacity)
\* points, in append order, capacity being the variant's one capacity.
C6_HistoryLength ==
    ~crashed =>
        /\ Len(data.history) = Min(nSucc, HistoryCapacity)
        /\ \A i \in 1..Len(data.history) :
              data.history[i].n = nSucc - Len(data.history) + i

\* C7: the history never exceeds the variant's capacity, and appending to it is
\* a sliding window: below capacity nothing is removed, at capacity exactly the
\* oldest point is, the others keep their order and the new point is last.
C7_SlidingWindow ==
    /\ [](Len(data.history) <= HistoryCapacity)
    /\ [][data'.history # data.history =>
            /\ data'.history # <<>>
            /\ data'.history[Len(data'.history)].n = nSucc'
            /\ SubSeq(data'.history, 1, Len(data'.history) - 1) =
                  (IF Len(data.history) < HistoryCapacity
                   THEN data.history ELSE Tail(data.history))]_vars

\* C8: the log never exceeds its capacity and is kept most recent first; addLog
\* puts the new entry at the front and, when the list is full, drops exactly
\* the oldest entries (the last ones).
C8_LogBounded ==
    /\ [](/\ Len(logs) <= LogCapacity
          /\ \A i \in 1..Len(logs) - 1 : logs[i].id > logs[i + 1].id)
    /\ [][logSeq' # logSeq =>
            LET k == logSeq' - logSeq
                kept == Min(Len(logs), LogCapacity - k)
            IN /\ Len(logs') = k + kept
               /\ \A i \in 1..k : logs'[i].id = logSeq' - i + 1
               /\ SubSeq(logs', k + 1, Len(logs')) = SubSeq(logs, 1, kept)]_vars

\* the log is full, its newest entry was just added and old entries were evicted
C8_Witness ==
    /\ Len(logs) = LogCapacity
    /\ logs[1].id = logSeq
    /\ logs[Len(logs)].id > 1
    /\ logSeq > LogCapacity

\* C9: a timer tick or manual sync that arrives while a cycle is in flight is
\* dropped: it starts no cycle and changes neither logs, data, last-update time
\* nor the in-flight flag.
C9_BusyTriggerDropped ==
    [][(last'.op \in {"timer", "manual"} /\ inflight # {}) =>
          UNCHANGED <<logs, data, lastUpdate, isSyncing, nStarted, inflight>>]_vars

\* C10: every cycle that completes, successfully or by failing, appends exactly
\* one entry of severity success or error (the one of its outcome) and clears
\* the in-flight flag; a successful one also updates the snapshot and appends
\* exactly one history point.
C10_CompletionEffects ==
    [][last'.done # NoCycle =>
          LET c == last'.done
              outcomeEntries == NewOfType("success") \cup NewOfType("error")
              h == data'.history
          IN /\ Cardinality(outcomeEntries) = 1
             /\ \A i \in outcomeEntries :
                   logs'[i].type = last'.outcome /\ logs'[i].cyc = c.id
             /\ isSyncing' = FALSE
             /\ c \notin inflight'
             /\ last'.outcome = "success" =>
                   /\ data'.boiler = c.id /\ data'.outside = c.id /\ data'.tree = c.id
                   /\ h # <<>> /\ h[Len(h)].cyc = c.id
                   /\ Cardinality({i \in 1..Len(h) : h[i].cyc = c.id}) = 1
                   /\ \A i \in 1..Len(h) - 1 :
                         \E j \in 1..Len(data.history) : h[i] = data.history[j]
                   /\ nSucc' = nSucc + 1]_vars

\* C11: every cycle started in mock mode completes, and completes successfully:
\* it is eventually settled with a success entry and a history point of its
\* own, the in-flight flag is released, and no error entry is ever appended
\* for it.
C11_MockCycleSucceeds ==
    /\ [][/\ (last'.done # NoCycle /\ last'.done.mock) =>
               /\ last'.outcome = "success"
               /\ \E i \in NewOfType("success") : logs'[i].cyc = last'.done.id
               /\ data'.history # <<>>
               /\ data'.history[Len(data'.history)].cyc = last'.done.id
               /\ isSyncing' = FALSE
               /\ last'.done \notin inflight'
           /\ \A i \in NewOfType("error") :
                  \/ logs'[i].cyc = last'.done.id /\ ~last'.done.mock
                  \/ logs'[i].cyc = last'.started.id /\ ~last'.started.mock]_vars
    /\ \A id \in 1..MaxCycles :
          (\E c \in inflight : c.id = id /\ c.mock)
              ~> (last.done.id = id /\ last.outcome = "success")

\* C12: a failed cycle (transport failure, blocked branch or malformed body) is
\* terminal for that cycle only: the timer stays as it was and the component
\* mounted, no extra cycle or request is started and none is scheduled by an
\* effect, and the data stored by earlier cycles is untouched.
C12_FailureIsLocal ==
    [][(last'.done # NoCycle /\ last'.outcome \in {"error", "crash"}) =>
          /\ timers' # <<>>
          /\ last'.op \in {"settle", "timer", "manual"} => timers' = timers
          /\ ~crashed'
          /\ effectPending' = "none"
          /\ nStarted' = (IF last'.started = last'.done THEN nStarted + 1 ELSE nStarted)
          /\ inflight' = inflight \ {last'.done}
          /\ data' = data]_vars

\* the step is an edit of the base URL or of the interval, or the run of the
\* polling effect that such an edit caused
UrlOrIntervalEdit == last'.op \in {"editUrl", "editInterval"}
EffectOfUrlOrIntervalEdit == last.op \in {"editUrl", "editInterval"} /\ last'.op = "edit"

\* C13: editing the refresh interval or the base URL leaves history, snapshot,
\* tree and log list as they were, up to the first completion of a cycle.
C13_EditLeavesStores ==
    [][(UrlOrIntervalEdit \/ (EffectOfUrlOrIntervalEdit /\ last'.done = NoCycle)) =>
          /\ data' = data
          /\ logs' = logs]_vars

\* C13 as amended: such an edit leaves history, snapshot, tree and last-update
\* time as they were; the log list keeps its entries (up to its capacity) and
\* gains, at its front, only the entries of the cycle the edit starts, none of
\* them a success entry.
C13_EditLeavesData ==
    [][/\ UrlOrIntervalEdit =>
             data' = data /\ lastUpdate' = lastUpdate /\ logs' = logs
       /\ EffectOfUrlOrIntervalEdit =>
             LET k == logSeq' - logSeq
                 kept == Min(Len(logs), LogCapacity - k)
             IN /\ data' = data
                /\ lastUpdate' = lastUpdate
                /\ Len(logs') = k + kept
                /\ SubSeq(logs', k + 1, Len(logs')) = SubSeq(logs, 1, kept)
                /\ \A i \in 1..k : /\ logs'[i].cyc = last'.started.id
                                    /\ last'.started # NoCycle
                                    /\ logs'[i].type \in {"info", "error"}]_vars

\* the effect of an edit of URL or interval has started a cycle, which logged
\* its start, over data stored by an earlier cycle
C13_Witness ==
    /\ last.op = "edit"
    /\ last.started # NoCycle
    /\ nEdits = 1 /\ config.mockMode = INITIAL_CONFIG(variant).mockMode
    /\ data.history # <<>>
    /\ Len(logs) >= 2 /\ logs[1].type = "info" /\ logs[1].cyc = last.started.id

\* lo <= x <= hi, lo and hi in degrees, x in thousandths
Within(x, lo, hi) == lo * 1000 <= x /\ x <= hi * 1000

\* the controller node of a stored tree
Root(tree) == IF variant = "C" THEN tree[1] ELSE tree

\* C14: every number a mock cycle produces lies in its range: boiler in
\* [60, 80] and outside in [5, 10] in all variants, and in variant C exhaust in
\* [140, 160], buffer top in [65, 70], buffer bottom in [40, 45], pellets 2450;
\* so do the values of the cycle's history point and of its tree leaves.
C14_MockRanges ==
    telemetry.made =>
        LET o == telemetry.out
            groups == Root(o.tree).children
        IN /\ Within(o.point.boiler, 60, 80)
           /\ Within(o.point.outside, 5, 10)
           /\ Within(groups[1].children[1].value, 60, 80)
           /\ IF variant = "C"
              THEN /\ Within(o.metrics.boiler, 60, 80)
                   /\ Within(o.metrics.outside, 5, 10)
                   /\ Within(o.metrics.exhaust, 140, 160)
                   /\ Within(o.metrics.bufferTop, 65, 70)
                   /\ Within(o.metrics.bufferBottom, 40, 45)
                   /\ o.metrics.pellets = 2450
                   /\ Within(groups[1].children[4].value, 140, 160)
                   /\ Within(groups[2].children[1].value, 65, 70)
                   /\ Within(groups[2].children[2].value, 40, 45)
                   /\ Within(groups[3].children[2].value, 5, 10)
                   /\ groups[4].children[1].value = 2450
              ELSE /\ Within(o.boilerTemp, 60, 80)
                   /\ Within(o.outsideTemp, 5, 10)

\* a mock cycle of variant C whose exhaust and outside leaves were rounded up
\* to the ends of their ranges
C14_Witness ==
    /\ telemetry.made
    /\ variant = "C"
    /\ telemetry.out.tree[1].children[1].children[4].value = 160000
    /\ telemetry.out.tree[1].children[3].children[2].value = 10000
    /\ telemetry.out.metrics.exhaust < 160000

IsLeaf(n) == "value" \in DOMAIN n /\ "children" \notin DOMAIN n
IsGroup(n) == "children" \in DOMAIN n /\ "value" \notin DOMAIN n

RECURSIVE WellFormed(_)
WellFormed(n) ==
    \/ IsLeaf(n)
    \/ IsGroup(n) /\ \A i \in 1..Len(n.children) : WellFormed(n.children[i])

\* a tree without its leaf values
RECURSIVE Shape(_)
Shape(n) ==
    IF IsLeaf(n) THEN [name |-> n.name, unit |-> n.unit]
    ELSE [name |-> n.name, children |-> [i \in 1..Len(n.children) |-> Shape(n.children[i])]]

\* C16: the tree of every mock cycle is a complete tree under the variant's
\* controller name, every node a leaf or a group; from one cycle to the next
\* only leaf values differ, and the generated leaves carry the numbers of the
\* new cycle, not those of the tree before.
C16_TreeRebuilt ==
    /\ [](telemetry.made =>
            /\ Root(telemetry.out.tree).name = CONTROLLER_NAME(variant)
            /\ Root(telemetry.out.tree).name \in {"ETA PE-K 15", "ETA PE-K 15kW", "ETAtouch System"}
            /\ IsGroup(Root(telemetry.out.tree))
            /\ WellFormed(Root(telemetry.out.tree))
            /\ variant = "C" => Len(telemetry.out.tree) = 1)
    /\ [][(telemetry.made /\ telemetry' # telemetry) =>
            /\ Shape(Root(telemetry'.out.tree)) = Shape(Root(telemetry.out.tree))
            /\ Root(telemetry'.out.tree).children[1].children[1].value
                  = toFixed(telemetry'.out.point.boiler, 1)]_vars

\* a second mock cycle has built a tree with another boiler leaf than the first
C16_Witness ==
    /\ telemetry.made
    /\ telemetry.again
    /\ variant = "B"
    /\ Root(telemetry.out.tree).children[1].children[1].value = 75000

\* C15: a successful live cycle stores the response body as the snapshot:
\* every reading and the tree are the response's, nothing of the previous
\* readings or tree remains; of the previous snapshot only history points are
\* kept, in their order, followed by one new point built from the response.
C15_LiveSnapshotVerbatim ==
    [][(last'.done # NoCycle /\ ~last'.done.mock /\ last'.outcome = "success") =>
          LET c == last'.done
              h == data'.history
          IN /\ data'.boiler = c.id /\ data'.outside = c.id
             /\ data'.exhaust = c.id /\ data'.other = c.id
             /\ data'.tree = c.id
             /\ h # <<>>
             /\ h[Len(h)] = [cyc |-> c.id, n |-> nSucc']
             /\ \E k \in 1..Len(data.history) + 1 :
                   SubSeq(h, 1, Len(h) - 1) = SubSeq(data.history, k, Len(data.history))]_vars

\* a live cycle has succeeded over a snapshot and history stored by a mock cycle
C15_Witness ==
    /\ last.outcome = "success"
    /\ ~last.done.mock
    /\ data.tree = last.done.id
    /\ Len(data.history) >= 2
    /\ data.history[1].cyc # last.done.id

\* the root name of the stored tree ("none": no tree stored yet)
StoredRootName ==
    IF data.tree = 0 THEN "none"
    ELSE CASE variant = "A" -> menuTree_A(0).name
           [] variant = "B" -> menuTree_B(0).name
           [] variant = "C" -> mockTree(mockMetrics([i \in 1..5 |-> 0]))[1].name

\* C17: started in mock mode with an interval of 1 s and left alone, once three
\* intervals have elapsed the history holds exactly 3 points, the log holds at
\* least 3 success entries and the tree's root is the variant's controller.
C17_ThreeIntervals ==
    clock = 3 * config.refreshInterval * 1000 =>
        /\ Len(data.history) = 3
        /\ Cardinality({i \in 1..Len(logs) : logs[i].type = "success"}) >= 3
        /\ StoredRootName = CONTROLLER_NAME(variant)

\* a request of a live cycle of variant C is pending (it may never complete)
RequestPending == variant = "C" /\ \E c \in inflight : ~c.mock

\* C18: while a live request stays pending the in-flight flag stays set and
\* every timer tick is dropped: the timer starts no further cycle or request.
C18_PendingRequestBlocksTicks ==
    /\ [](RequestPending => isSyncing)
    /\ [][(RequestPending /\ last'.op = "timer") =>
             /\ last'.started = NoCycle
             /\ nStarted' = nStarted
             /\ inflight' = inflight]_vars

\* C19: a live response that cannot be used (a body that is not JSON, or JSON
\* without a metrics object) ends the cycle on its failure path: exactly one
\* error entry and no success entry, snapshot, history and tree unchanged, the
\* in-flight flag released, the application still mounted.
C19_UnusableBodyHandled ==
    [][(last'.done # NoCycle /\ ~last'.done.mock /\ last'.outcome # "success") =>
          /\ Cardinality(NewOfType("error")) = 1
          /\ NewOfType("success") = {}
          /\ data' = data
          /\ isSyncing' = FALSE
          /\ ~crashed']_vars

\* the configuration was edited after cycle c had started
EditedSince(c) == c.edits < nEdits

\* C20: an edit of interval, URL or mode does not cancel a cycle in flight: the
\* edit and the effect it causes remove no cycle, and the cycle later completes
\* as its own configuration says and writes its result: a mock cycle its
\* snapshot, history point and success entry, a live cycle its outcome entry
\* and, when the response is usable, snapshot and history point.
C20_EditDoesNotCancel ==
    [][/\ last'.op \in {"editUrl", "editInterval", "editMode", "edit"} =>
             inflight \subseteq inflight'
       /\ (last'.done # NoCycle /\ EditedSince(last'.done)) =>
             LET c == last'.done
                 h == data'.history
             IN /\ c.mock => last'.outcome = "success"
                /\ last'.outcome \in {"success", "error"}
                /\ \E i \in NewOfType(last'.outcome) : logs'[i].cyc = c.id
                /\ last'.outcome = "success" =>
                      /\ data'.boiler = c.id /\ data'.outside = c.id /\ data'.tree = c.id
                      /\ h # <<>> /\ h[Len(h)].cyc = c.id
                      /\ lastUpdate' = c.id]_vars

\* the effect ran in this step
EffectRan == last'.op \in {"mount", "edit", "sync"}

\* C21: at most one interval timer is active at any time: every run of the
\* polling effect leaves exactly one timer, the one it created with the
\* function and the interval of the current render, the unmount leaves none,
\* and no other step creates or removes a timer.
C21_OneTimer ==
    /\ Len(timers) <= 1
    /\ [][/\ Len(timers') <= 1
          /\ EffectRan => timers' = <<[closure |-> Closure,
                                       period |-> config.refreshInterval,
                                       set |-> clock]>>
          /\ crashed' => timers' = <<>>
          /\ (~EffectRan /\ ~crashed') => timers' = timers]_vars

C21_Witness ==
    /\ last.op = "edit"
    /\ Len(timers) = 1
    /\ timers[1].period # INITIAL_CONFIG(variant).refreshInterval

\* C22: the history is in completion order: its points are in the order in
\* which their cycles completed, whatever the order in which the cycles were
\* started, and the point of the cycle completing now is the last one.
C22_CompletionOrder ==
    LET h == data.history
    IN /\ \A i, j \in 1..Len(h) : i < j => h[i].n < h[j].n
       /\ (last.op = "settle" /\ last.outcome = "success") =>
             (h # <<>> /\ h[Len(h)].cyc = last.done.id /\ h[Len(h)].n = nSucc)

\* two points whose cycles were started in the other order
C22_Witness ==
    \E i, j \in 1..Len(data.history) :
        i < j /\ data.history[i].cyc > data.history[j].cyc

\* the steps that are a user's interaction with the screens
UserOps == {"editUrl", "editInterval", "editMode", "clear", "view", "toggle"}

C24_SnapshotWholesale ==
    [][(last'.done # NoCycle /\ last'.outcome = "success") =>
          /\ data'.boiler = last'.done.id
          /\ data'.outside = last'.done.id
          /\ data'.exhaust = last'.done.id
          /\ data'.other = last'.done.id]_vars

\* the interval stored is not a usable number of seconds
UnusableInterval == config.refreshInterval \in {0, NaN}

\* refreshInterval * 1000 (NaN * 1000 is NaN)
Millis(sec) == IF sec = NaN THEN NaN ELSE sec * 1000

\* C25: an empty or non-numeric interval input is not rejected: the edit stores
\* 0 (A, C) or NaN (B) and makes the polling effect run, the effect replaces the
\* timer by one created with that value, whose delay is zero, and the timer
\* keeps that value for as long as the interval is not edited again.
C25_EmptyIntervalAccepted ==
    /\ [](( ~crashed /\ effectPending = "none" /\ UnusableInterval) =>
             /\ Len(timers) = 1
             /\ timers[1].period = config.refreshInterval
             /\ TimerDelay(Millis(timers[1].period)) = 0)
    /\ [][(config'.refreshInterval # config.refreshInterval
              /\ config'.refreshInterval \in {0, NaN}) =>
             /\ config'.refreshInterval = (IF variant = "B" THEN NaN ELSE 0)
             /\ last'.op = "editInterval"
             /\ effectPending' = "edit"]_vars

\* the zero-delay timer has fired
C25_Witness ==
    /\ UnusableInterval
    /\ last.op = "timer"
    /\ Len(timers) = 1
    /\ TimerDelay(Millis(timers[1].period)) = 0

\* C26: the expand/collapse state of a tree node returns to its default exactly
\* when a cycle replaces the tree: while the tree screen stays shown the state
\* is kept by every step that leaves the tree as it is (other than the click on
\* the node), and it is the default after a step that installs a new tree.
C26_ExpandStateResets ==
    [][(view = "tree" /\ view' = "tree" /\ ~crashed') =>
          /\ (data'.tree = data.tree /\ last'.op # "toggle") => isOpen' = isOpen
          /\ data'.tree # data.tree => isOpen' = DefaultOpen]_vars

\* C27: the in-flight flag is set exactly while a cycle is in flight.
C27_FlagIffInFlight == isSyncing <=> inflight # {}

\* C28: snapshot, tree and last history point are written together: whenever
\* the history is not empty its last point, the snapshot's boiler and outside
\* readings and the tree all come from the same cycle, also after overlapping
\* cycles; while it is empty, snapshot and tree are the initial ones.
C28_SnapshotMatchesLastPoint ==
    LET h == data.history
    IN IF h = <<>>
       THEN data.boiler = 0 /\ data.outside = 0 /\ data.tree = 0
       ELSE /\ data.boiler = h[Len(h)].cyc
            /\ data.outside = h[Len(h)].cyc
            /\ data.tree = h[Len(h)].cyc

\* a cycle completed while another was in flight, after an earlier success
C28_Witness ==
    /\ Len(data.history) >= 2
    /\ last.outcome = "success"
    /\ inflight # {}

\* C29: the last-update time changes only when a cycle completes successfully:
\* it is null until the first success, a failed or dropped cycle and every other
\* step leave it as it is, and every success sets it in the step that appends
\* that cycle's success entry.
C29_LastUpdateOnSuccess ==
    /\ [](nSucc = 0 => lastUpdate = 0)
    /\ [][/\ lastUpdate' # lastUpdate =>
                (last'.done # NoCycle /\ last'.outcome = "success")
          /\ (last'.done # NoCycle /\ last'.outcome = "success") =>
                /\ lastUpdate' = last'.done.id
                /\ \E i \in NewOfType("success") : logs'[i].cyc = last'.done.id
          /\ last'.outcome \in {"error", "dropped", "crash", "unmounted"} =>
                lastUpdate' = lastUpdate]_vars

\* a cycle failed after an earlier one had succeeded
C29_Witness ==
    /\ last.outcome = "error"
    /\ lastUpdate # 0
    /\ lastUpdate # last.done.id
====
